---- MODULE Spec2Model ----
(***************************************************************************)
(* The Ames-housing dashboard: the two entry scripts app.py and            *)
(* streamlit_app.py, run under Streamlit's re-run-on-interaction model.    *)
(*                                                                         *)
(* One process runs one entry script.  Every user interaction re-executes  *)
(* the script top to bottom; the only state that survives a re-run is the  *)
(* st.cache_data entry of load_data and the widgets' values.               *)
(*                                                                         *)
(* Numbers: log-prices are fixed-point, in hundredths (the slider's float  *)
(* step is 0.01); p-values are in hundredths too (Alpha = 5 is 0.05).      *)
(***************************************************************************)
EXTENDS Integers, Sequences, FiniteSets

VARIABLES
    app,             \* the entry script this process runs
    filePresent,     \* whether AmesHousing.csv is in the working directory
    fileRows,        \* the rows of AmesHousing.csv
    cache,           \* st.cache_data's entries for load_data: <<>> or <<entry>>
    reads,           \* pd.read_csv calls made so far
    analysis_option, \* the selectbox's value (app.py)
    preco_max,       \* the slider's value (streamlit_app.py)
    df,              \* the module-level df of the last pass
    strict,          \* whether the installed SciPy raises on degenerate samples
    display,         \* the elements the last pass put on the page
    runs             \* the analysis routines the last pass called, in order

vars == <<app, filePresent, fileRows, cache, reads, analysis_option,
          preco_max, df, strict, display, runs>>

----------------------------------------------------------------------------
(* Bounds of the model *)

MaxRows == 2

(* The significance level of the assumption checks, in hundredths *)
Alpha == 5

Apps == {"app", "streamlit_app"}
SalePrices == {1, 2}
QualityGrades == {1, 2}
Neighborhoods == {"NAmes", "OldTown"}
NaN == "<NaN>"
GarageCells == {NaN, "Attchd"}
Attributes == <<"OverallQual", "Neighborhood", "GarageType">>
AttributeSet == {Attributes[i] : i \in 1..3}
NoOption == ""
Unset == 0
NoP == -1
PVals == {Alpha, Alpha + 1}

----------------------------------------------------------------------------
(* Sequences *)

Range(s) == {s[i] : i \in 1..Len(s)}

RECURSIVE Insert(_, _)
Insert(x, s) ==
    IF s = <<>> THEN <<x>>
    ELSE IF x <= Head(s) THEN <<x>> \o s
    ELSE <<Head(s)>> \o Insert(x, Tail(s))

RECURSIVE SortAsc(_)
SortAsc(s) == IF s = <<>> THEN <<>> ELSE Insert(Head(s), SortAsc(Tail(s)))

Perms(S) ==
    {p \in [1..Cardinality(S) -> S] : \A i, j \in 1..Cardinality(S) : i # j => p[i] # p[j]}

----------------------------------------------------------------------------
(* The input file and load_data *)

FileRow == [SalePrice : SalePrices, OverallQual : QualityGrades,
            Neighborhood : Neighborhoods, GarageType : GarageCells]

(* np.log1p, in hundredths, rounded *)
Log1p(p) ==
    CASE p = 0 -> 0
      [] p = 1 -> 69
      [] p = 2 -> 110
      [] p = 3 -> 139
      [] p = 4 -> 161
      [] OTHER -> 179

(* fillna left out: the cell as read *)
fillna_skipped(cell) == cell

(* Series.fillna('No Garage') on one cell *)
fillna(cell) == IF cell = NaN THEN "No Garage" ELSE cell

None == [ok |-> FALSE, rows |-> <<>>]

Elem(kind, by, what) == [kind |-> kind, by |-> by, what |-> what]

(* The body of load_data: the value it returns and the elements it shows *)
load_data_body(present, rows) ==
    IF present
    THEN [value |-> [ok |-> TRUE,
                     rows |-> [i \in 1..Len(rows) |->
                         [SalePrice |-> rows[i].SalePrice,
                          SalePrice_log |-> Log1p(rows[i].SalePrice),
                          OverallQual |-> rows[i].OverallQual,
                          Neighborhood |-> rows[i].Neighborhood,
                          GarageType |-> fillna(rows[i].GarageType)]]],
          elems |-> <<>>]
    ELSE [value |-> None,
          elems |-> <<Elem("error", "load_data", "file not found")>>]

(* A cache that does not keep a None result *)
CacheMissOnNone(c) == c = <<>> \/ ~c[1].value.ok

(* No cache: every call runs the body *)
CacheMissAlways(c) == TRUE

(* @st.cache_data on a function of no arguments: whether this call runs    *)
(* the body.  A miss runs it; a hit returns the stored value and replays   *)
(* the stored elements.  No ttl, no max_entries: an entry is never dropped.*)
CacheMiss(c) == c = <<>>

(* load_data() as the script calls it: the entry the call ends with *)
load_data(c, present, rows) ==
    IF CacheMiss(c) THEN load_data_body(present, rows) ELSE c[1]

----------------------------------------------------------------------------
(* What the analysis routines compute on the view they are given *)

(* df[col].unique() *)
Groups(view, col) == {view[i][col] : i \in 1..Len(view)}

RECURSIVE GroupValues(_, _, _)
(* df['SalePrice_log'][df[col] == g] *)
GroupValues(view, col, g) ==
    IF view = <<>> THEN <<>>
    ELSE IF Head(view)[col] = g
         THEN <<Head(view).SalePrice_log>> \o GroupValues(Tail(view), col, g)
         ELSE GroupValues(Tail(view), col, g)

(* Twice the median of a non-empty sequence of numbers (twice, to stay in  *)
(* the integers: the median of an even count is the mean of the middle two)*)
Median2(vals) ==
    LET s == SortAsc(vals)
        n == Len(s)
    IN IF n % 2 = 1 THEN 2 * s[(n + 1) \div 2] ELSE s[n \div 2] + s[n \div 2 + 1]

(* sort_values(ascending=False) *)
median_order_descending(view, col) ==
    LET G == Groups(view, col)
    IN CHOOSE p \in Perms(G) : \A i, j \in 1..Cardinality(G) :
           i < j => Median2(GroupValues(view, col, p[i])) >= Median2(GroupValues(view, col, p[j]))

(* df.groupby(col)['SalePrice_log'].median().sort_values().index: the      *)
(* groups by ascending median; the order among equal medians is whatever   *)
(* the sort leaves.                                                        *)
median_order(view, col) ==
    LET G == Groups(view, col)
    IN CHOOSE p \in Perms(G) : \A i, j \in 1..Cardinality(G) :
           i < j => Median2(GroupValues(view, col, p[i])) <= Median2(GroupValues(view, col, p[j]))

(* sns.boxplot without order= on a numeric x: the values, ascending *)
numeric_order(view, col) ==
    LET G == Groups(view, col)
    IN CHOOSE p \in Perms(G) : \A i, j \in 1..Cardinality(G) : i < j => p[i] < p[j]

(* The library calls that can raise on the views the slider can produce.   *)
(* strict: the installed SciPy/statsmodels raise on a degenerate sample    *)
(* where other releases return NaN.                                        *)
(* stats.shapiro: "Data must be at least length 3." *)
shapiro_raises(view) == Len(view) < 3 /\ strict
(* stats.levene: "Must enter at least two input sample vectors." *)
levene_raises(view, col) == Cardinality(Groups(view, col)) < 2
(* stats.kruskal: "Need at least two groups", "All numbers are identical" *)
kruskal_raises(view, col) ==
    \/ Cardinality(Groups(view, col)) < 2
    \/ /\ strict
       /\ \A i, j \in 1..Len(view) : view[i].SalePrice_log = view[j].SalePrice_log
(* anova_lm on a model whose only term has a single level *)
anova_raises(view, col) == Cardinality(Groups(view, col)) < 2 /\ strict

(* if p > 0.05: st.success(...) else: st.warning(...) *)
AssumptionFlag(p) == IF p > Alpha THEN "met" ELSE "violated"
FlagElem(by, what, p) ==
    IF p > Alpha THEN Elem("success", by, what) ELSE Elem("warning", by, what)

(* The neighbourhood routine pasted from the other two: ANOVA everywhere *)
omnibus_test_pasted(by) == "ANOVA"

(* The omnibus test each routine calls *)
omnibus_test(by) ==
    CASE by = "OverallQual" -> "ANOVA"
      [] by = "Neighborhood" -> "Kruskal-Wallis"
      [] by = "GarageType" -> "ANOVA"

(* The record of one call of an analysis routine.  checked: both assumption *)
(* tests returned; shapiro_p, levene_p: their p-values, where the routine   *)
(* goes on to use them.                                                     *)
NewRun(by, view) ==
    [attr |-> by, view |-> view, shapiro_p |-> NoP, levene_p |-> NoP,
     checked |-> FALSE, normFlag |-> "none", homFlag |-> "none", test |-> "none",
     order |-> <<>>, raised |-> FALSE]

Raise(elems, run) == [elems |-> elems, run |-> [run EXCEPT !.raised = TRUE]]
Return(elems, run) == [elems |-> elems, run |-> run]

----------------------------------------------------------------------------
(* app.py's analysis routines *)

app_run_analysis_overall_qual(view, lib) ==
    LET by == "OverallQual"
        r0 == NewRun(by, view)
        e0 == <<Elem("header", by, "title"), Elem("subheader", by, "assumptions")>>
    IN IF shapiro_raises(view) THEN Raise(e0, r0)
       ELSE
       LET r1 == [r0 EXCEPT !.shapiro_p = lib.sp, !.normFlag = AssumptionFlag(lib.sp)]
           e1 == e0 \o <<Elem("write", by, "shapiro p"), FlagElem(by, "normality", lib.sp)>>
       IN IF levene_raises(view, by) THEN Raise(e1, r1)
          ELSE
          LET r2 == [r1 EXCEPT !.levene_p = lib.lp, !.checked = TRUE, !.homFlag = AssumptionFlag(lib.lp),
                               !.test = omnibus_test(by),
                               !.order = numeric_order(view, by)]
              e2 == e1 \o <<Elem("write", by, "levene p"), FlagElem(by, "homogeneity", lib.lp),
                            Elem("info", by, "conclusion"), Elem("subheader", by, "test"),
                            Elem("write", by, "table title"), Elem("dataframe", by, "anova table"),
                            Elem("pyplot", by, "boxplot"), Elem("write", by, "reading")>>
          IN Return(e2, r2)

app_run_analysis_neighborhood(view, lib) ==
    LET by == "Neighborhood"
        r0 == NewRun(by, view)
        e0 == <<Elem("header", by, "title"), Elem("subheader", by, "assumptions")>>
    IN IF shapiro_raises(view) THEN Raise(e0, r0)
       ELSE
       LET r1 == [r0 EXCEPT !.shapiro_p = lib.sp]
       IN IF levene_raises(view, by) THEN Raise(e0, r1)
          ELSE
          LET r2 == [r1 EXCEPT !.levene_p = lib.lp, !.checked = TRUE, !.normFlag = "violated",
                               !.homFlag = "violated", !.test = omnibus_test(by)]
              e2 == e0 \o <<Elem("write", by, "shapiro p"), Elem("warning", by, "normality"),
                            Elem("write", by, "levene p"), Elem("warning", by, "homogeneity"),
                            Elem("error", by, "conclusion"), Elem("subheader", by, "test")>>
          IN IF kruskal_raises(view, by) THEN Raise(e2, r2)
             ELSE Return(e2 \o <<Elem("write", by, "kruskal p"), Elem("write", by, "reading"),
                                 Elem("pyplot", by, "boxplot")>>,
                         [r2 EXCEPT !.order = median_order(view, by)])

app_run_analysis_garage_type(view, lib) ==
    LET by == "GarageType"
        r0 == NewRun(by, view)
        e0 == <<Elem("header", by, "title"), Elem("subheader", by, "assumptions")>>
    IN IF shapiro_raises(view) THEN Raise(e0, r0)
       ELSE
       LET r1 == [r0 EXCEPT !.shapiro_p = lib.sp, !.normFlag = AssumptionFlag(lib.sp)]
           e1 == e0 \o <<Elem("write", by, "shapiro p"), FlagElem(by, "normality", lib.sp)>>
       IN IF levene_raises(view, by) THEN Raise(e1, r1)
          ELSE
          LET r2 == [r1 EXCEPT !.levene_p = lib.lp, !.checked = TRUE, !.homFlag = AssumptionFlag(lib.lp),
                               !.test = omnibus_test(by),
                               !.order = median_order(view, by)]
              e2 == e1 \o <<Elem("write", by, "levene p"), FlagElem(by, "homogeneity", lib.lp),
                            Elem("info", by, "conclusion"), Elem("subheader", by, "test"),
                            Elem("write", by, "table title"), Elem("dataframe", by, "anova table"),
                            Elem("pyplot", by, "boxplot")>>
          IN Return(e2, r2)

----------------------------------------------------------------------------
(* streamlit_app.py's analysis routines *)

streamlit_app_run_analysis_overall_qual(view, lib) ==
    LET by == "OverallQual"
        r0 == NewRun(by, view)
        e0 == <<Elem("subheader", by, "title"), Elem("expander", by, "assumptions")>>
    IN IF shapiro_raises(view) THEN Raise(e0, r0)
       ELSE
       LET r1 == [r0 EXCEPT !.shapiro_p = lib.sp]
       IN IF levene_raises(view, by) THEN Raise(e0, r1)
          ELSE
          LET r2 == [r1 EXCEPT !.levene_p = lib.lp, !.checked = TRUE,
                               !.normFlag = AssumptionFlag(lib.sp),
                               !.homFlag = AssumptionFlag(lib.lp),
                               !.test = omnibus_test(by),
                               !.order = numeric_order(view, by)]
              e2 == e0 \o <<Elem("metric", by, "shapiro p"), FlagElem(by, "normality", lib.sp),
                            Elem("metric", by, "levene p"), FlagElem(by, "homogeneity", lib.lp),
                            Elem("info", by, "conclusion"), Elem("metric", by, "anova p"),
                            Elem("write", by, "table title"), Elem("dataframe", by, "anova table"),
                            Elem("pyplot", by, "boxplot")>>
          IN Return(e2, r2)

(* shapiro_p and levene_p are computed and never read again *)
streamlit_app_run_analysis_neighborhood(view) ==
    LET by == "Neighborhood"
        r0 == NewRun(by, view)
        e0 == <<Elem("subheader", by, "title")>>
    IN IF shapiro_raises(view) \/ levene_raises(view, by) THEN Raise(e0, r0)
       ELSE
       LET r2 == [r0 EXCEPT !.checked = TRUE, !.normFlag = "violated",
                            !.homFlag = "violated", !.test = omnibus_test(by)]
           e2 == e0 \o <<Elem("warning", by, "normality and homogeneity")>>
       IN IF kruskal_raises(view, by) THEN Raise(e2, r2)
          ELSE Return(e2 \o <<Elem("metric", by, "kruskal p"), Elem("pyplot", by, "boxplot")>>,
                      [r2 EXCEPT !.order = median_order(view, by)])

streamlit_app_run_analysis_garage_type(view) ==
    LET by == "GarageType"
        r0 == [NewRun(by, view) EXCEPT !.test = omnibus_test(by)]
        e0 == <<Elem("subheader", by, "title")>>
    IN IF anova_raises(view, by) THEN Raise(e0, r0)
       ELSE Return(e0 \o <<Elem("metric", by, "anova p"), Elem("dataframe", by, "anova table"),
                           Elem("pyplot", by, "boxplot")>>,
                   [r0 EXCEPT !.order = median_order(view, by)])

----------------------------------------------------------------------------
(* The page: what one top-to-bottom execution of the script does *)

(* Streamlit's display of an exception the script did not catch; the       *)
(* exception ends the pass.                                                *)
Uncaught == Elem("exception", "framework", "uncaught")

Column(rows) == {rows[i].SalePrice_log : i \in 1..Len(rows)}
(* df['SalePrice_log'].min(), .max() *)
ColMin(rows) == CHOOSE m \in Column(rows) : \A x \in Column(rows) : m <= x
ColMax(rows) == CHOOSE m \in Column(rows) : \A x \in Column(rows) : m >= x

(* st.sidebar.slider(label, min, max, value=max): the widget's value *)
slider(value, rows) == IF value = Unset THEN ColMax(rows) ELSE value

(* st.sidebar.selectbox(label, options): the widget's value *)
selectbox(value) == IF value = NoOption THEN Attributes[1] ELSE value

KeepBelow(r, t) == r.SalePrice_log < t

Keep(r, t) == r.SalePrice_log <= t
(* df[df['SalePrice_log'] <= preco_max] *)
df_filtrado(rows, t) == SelectSeq(rows, LAMBDA r : Keep(r, t))

(* A dispatch that ignores the selection *)
app_dispatch_first(option, view, lib) == app_run_analysis_overall_qual(view, lib)

(* app.py's if / elif / elif on analysis_option *)
app_dispatch(option, view, lib) ==
    CASE option = "OverallQual" -> app_run_analysis_overall_qual(view, lib)
      [] option = "Neighborhood" -> app_run_analysis_neighborhood(view, lib)
      [] option = "GarageType" -> app_run_analysis_garage_type(view, lib)

(* app.py, lines 119-133 *)
app_script(entry, option, lib) ==
    LET top == <<Elem("title", "shell", "title"), Elem("write", "shell", "intro")>> \o entry.elems
    IN IF entry.value.ok
       THEN LET r == app_dispatch(selectbox(option), entry.value.rows, lib)
            IN [display |-> top \o <<Elem("header", "shell", "sidebar"),
                                     Elem("selectbox", "shell", "analysis_option")>>
                                \o r.elems
                                \o (IF r.run.raised THEN <<Uncaught>> ELSE <<>>),
                runs |-> <<r.run>>,
                analysis_option |-> selectbox(option),
                preco_max |-> Unset]
       ELSE [display |-> top, runs |-> <<>>,
             analysis_option |-> option, preco_max |-> Unset]

(* The three tabs of streamlit_app.py: each routine runs unless an earlier *)
(* one raised.                                                             *)
tabs(view, lib) ==
    LET a == streamlit_app_run_analysis_overall_qual(view, lib)
        b == streamlit_app_run_analysis_neighborhood(view)
        c == streamlit_app_run_analysis_garage_type(view)
        head == <<Elem("tabs", "shell", "tabs")>>
    IN IF a.run.raised
       THEN [elems |-> head \o a.elems \o <<Uncaught>>, runs |-> <<a.run>>]
       ELSE IF b.run.raised
       THEN [elems |-> head \o a.elems \o b.elems \o <<Uncaught>>, runs |-> <<a.run, b.run>>]
       ELSE [elems |-> head \o a.elems \o b.elems \o c.elems
                            \o (IF c.run.raised THEN <<Uncaught>> ELSE <<>>),
             runs |-> <<a.run, b.run, c.run>>]

(* streamlit_app.py, lines 111-139.  The slider subscripts df before the   *)
(* `if df is not None` test: on None that is a TypeError.                  *)
streamlit_app_script(entry, value, lib) ==
    LET top == entry.elems \o <<Elem("title", "shell", "title"),
                                Elem("markdown", "shell", "subtitle"),
                                Elem("divider", "shell", "divider"),
                                Elem("title", "shell", "sidebar"),
                                Elem("write", "shell", "sidebar")>>
    IN IF ~entry.value.ok
       THEN [display |-> top \o <<Uncaught>>, runs |-> <<>>,
             analysis_option |-> NoOption, preco_max |-> value]
       ELSE LET t == slider(value, entry.value.rows)
                r == tabs(df_filtrado(entry.value.rows, t), lib)
            IN [display |-> top \o <<Elem("slider", "shell", "preco_max")>> \o r.elems,
                runs |-> r.runs,
                analysis_option |-> NoOption,
                preco_max |-> t]

----------------------------------------------------------------------------
(* The process *)

(* The files the model reads: 1..MaxRows rows.  No routine depends on the  *)
(* order of the rows (groups are sets of keys, a median sorts its values), *)
(* so the files are enumerated up to the order of their rows.              *)
RowRank(r) ==
    ((r.SalePrice * (Cardinality(QualityGrades) + 1) + r.OverallQual) * 2
        + (IF r.Neighborhood = "NAmes" THEN 0 ELSE 1)) * 2
        + (IF r.GarageType = NaN THEN 0 ELSE 1)

Files ==
    UNION {{f \in [1..n -> FileRow] : \A i \in 1..(n - 1) : RowRank(f[i]) <= RowRank(f[i + 1])}
           : n \in 1..MaxRows}

(* The slider positions the model moves to: each log-price of the column   *)
(* and one step (0.01) above it, within [min, max].                        *)
SliderStops(rows) ==
    {t \in Column(rows) \cup {x + 1 : x \in Column(rows)} : ColMin(rows) <= t /\ t <= ColMax(rows)}

Lib == [sp : PVals, lp : PVals]

Init ==
    /\ app \in Apps
    /\ filePresent \in BOOLEAN
    /\ fileRows \in Files
    /\ cache = <<>>
    /\ reads = 0
    /\ analysis_option = NoOption
    /\ preco_max = Unset
    /\ df = None
    /\ strict \in BOOLEAN
    /\ display = <<>>
    /\ runs = <<>>

(* One re-run of the script, top to bottom, with the widgets at (option,   *)
(* value).  The p-values are what SciPy computes on the view; the model    *)
(* draws them (lib).                                                       *)
Pass(option, value) ==
    LET entry == load_data(cache, filePresent, fileRows)
    IN \E lib \in Lib :
        \E page \in {IF app = "app"
                     THEN app_script(entry, option, lib)
                     ELSE streamlit_app_script(entry, value, lib)} :
           /\ cache' = <<entry>>
           /\ reads' = reads + (IF CacheMiss(cache) THEN 1 ELSE 0)
           /\ df' = entry.value
           /\ display' = page.display
           /\ runs' = page.runs
           /\ analysis_option' = page.analysis_option
           /\ preco_max' = page.preco_max
           /\ UNCHANGED <<app, filePresent, fileRows, strict>>

(* The first page load, the Rerun command, a browser refresh *)
Rerun == Pass(analysis_option, preco_max)

(* The user picks another attribute in app.py's selectbox *)
SelectAttribute(a) ==
    /\ app = "app"
    /\ df.ok
    /\ a # analysis_option
    /\ Pass(a, preco_max)

(* The user moves streamlit_app.py's slider *)
MoveSlider(t) ==
    /\ app = "streamlit_app"
    /\ df.ok
    /\ t \in SliderStops(df.rows)
    /\ t # preco_max
    /\ Pass(analysis_option, t)

(* The environment: AmesHousing.csv is put in the directory, or taken away *)
FileAppears ==
    /\ ~filePresent
    /\ filePresent' = TRUE
    /\ UNCHANGED <<app, fileRows, cache, reads, analysis_option, preco_max,
                   df, strict, display, runs>>

FileRemoved ==
    /\ filePresent
    /\ filePresent' = FALSE
    /\ UNCHANGED <<app, fileRows, cache, reads, analysis_option, preco_max,
                   df, strict, display, runs>>

Next ==
    \/ Rerun
    \/ \E a \in AttributeSet : SelectAttribute(a)
    \/ \E t \in {Log1p(p) + d : p \in SalePrices, d \in {0, 1}} : MoveSlider(t)
    \/ FileAppears
    \/ FileRemoved

Spec == Init /\ [][Next]_vars

(* The page's state: no pass yet, or what the last pass found *)
ShellState ==
    IF display = <<>> THEN "Start" ELSE IF df.ok THEN "Ready" ELSE "NoData"

----------------------------------------------------------------------------
(* What the properties below read off a state *)

ElemsOfKind(k) == {i \in 1..Len(display) : display[i].kind = k}
AnalysisElems == {i \in 1..Len(display) : display[i].by \in AttributeSet}
RunIdx == 1..Len(runs)
Loaded == cache # <<>> /\ cache[1].value.ok
(* The observations of group g in the view of a run *)
GroupOf(r, g) == GroupValues(r.view, r.attr, g)
HasSmallGroup(r) == \E g \in Groups(r.view, r.attr) : Len(GroupOf(r, g)) < 2

----------------------------------------------------------------------------
(* C1.  A pass that finds AmesHousing.csv missing shows exactly one error, *)
(* no output of any analysis routine and no other exception, in app.py and *)
(* in streamlit_app.py alike.                                              *)
C1_MissingFileOneError ==
    ShellState = "NoData" =>
        /\ Cardinality(ElemsOfKind("error")) = 1
        /\ ElemsOfKind("exception") = {}
        /\ AnalysisElems = {}
        /\ runs = <<>>

(* C2.  NoData is terminal: from a pass that found the file missing, every *)
(* later step of the process (a re-run, a widget move, the file turning up)*)
(* leaves the page in NoData with no analysis routine called.              *)
C2_NoDataTerminal ==
    [][ShellState = "NoData" => (ShellState' = "NoData" /\ runs' = <<>>)]_vars

(* A pass found the file missing, and the file has since appeared *)
C2_Witness == ShellState = "NoData" /\ filePresent /\ reads = 1

(* C3.  The file is read at most once per process: once a load succeeded,  *)
(* no later step reads the file again or drops or replaces the cached      *)
(* dataset, and every pass gets the cached dataset.                        *)
C3_LoadedOnce ==
    /\ [](reads <= 1)
    /\ [][Loaded => (cache' = cache /\ reads' = reads /\ df' = cache[1].value)]_vars

(* The dataset is served from the cache after a slider move or a change of *)
(* selection, with the file gone from the directory                        *)
C3_Witness ==
    /\ Loaded /\ ~filePresent /\ reads = 1 /\ ShellState = "Ready"
    /\ \/ app = "streamlit_app" /\ preco_max # ColMax(df.rows)
       \/ app = "app" /\ analysis_option # Attributes[1]

(* C4.  After a successful load the garage-type column has no missing      *)
(* value, neither in the dataset nor in any filtered view given to a       *)
(* routine: a cell missing in the file holds 'No Garage', any other cell   *)
(* holds what the file holds.                                              *)
C4_GarageFilled ==
    df.ok =>
        /\ Len(df.rows) = Len(fileRows)
        /\ \A i \in 1..Len(df.rows) :
              /\ df.rows[i].GarageType # NaN
              /\ fileRows[i].GarageType = NaN => df.rows[i].GarageType = "No Garage"
              /\ fileRows[i].GarageType # NaN => df.rows[i].GarageType = fileRows[i].GarageType
        /\ \A k \in RunIdx : \A j \in 1..Len(runs[k].view) :
              /\ runs[k].view[j].GarageType # NaN
              /\ runs[k].view[j] \in Range(df.rows)

(* A file with a missing garage cell and a present one, loaded, and a      *)
(* filtered view that still holds the filled row                           *)
C4_Witness ==
    /\ df.ok
    /\ \E i, j \in 1..Len(fileRows) : fileRows[i].GarageType = NaN /\ fileRows[j].GarageType # NaN
    /\ \E k \in RunIdx :
          /\ Len(runs[k].view) < Len(df.rows)
          /\ \E j \in 1..Len(runs[k].view) : runs[k].view[j].GarageType = "No Garage"

(* C5.  The filtered view is exactly the rows with log-price <= the slider *)
(* threshold t, min <= t <= max: at t = max it has as many rows as the     *)
(* dataset, at t = min only rows at the minimum log-price.                 *)
C5_FilterExact ==
    (app = "streamlit_app" /\ ShellState = "Ready") =>
        /\ ColMin(df.rows) <= preco_max /\ preco_max <= ColMax(df.rows)
        /\ runs # <<>>
        /\ \A k \in RunIdx :
            LET v == runs[k].view
            IN /\ \A j \in 1..Len(v) : v[j].SalePrice_log <= preco_max /\ v[j] \in Range(df.rows)
               /\ Len(v) = Cardinality({i \in 1..Len(df.rows) : df.rows[i].SalePrice_log <= preco_max})
               /\ preco_max = ColMax(df.rows) => Len(v) = Len(df.rows)
               /\ preco_max = ColMin(df.rows) =>
                      \A j \in 1..Len(v) : v[j].SalePrice_log = ColMin(df.rows)

(* The slider at the minimum of a column with two prices: rows are dropped *)
C5_Witness ==
    /\ app = "streamlit_app" /\ ShellState = "Ready"
    /\ preco_max = ColMin(df.rows) /\ ColMin(df.rows) < ColMax(df.rows)
    /\ runs # <<>> /\ Len(runs[1].view) < Len(df.rows) /\ Len(runs[1].view) >= 1

(* C6 as stated.  In Ready every pass calls exactly one analysis routine,  *)
(* the one of the selected attribute and neither of the other two, on the  *)
(* view filtered by the slider's threshold.  (Read in the code's favour:   *)
(* where the script has no selectbox or no slider, that part asks nothing.)*)
C6_OneSelectedRoutine ==
    ShellState = "Ready" =>
        /\ Len(runs) = 1
        /\ analysis_option # NoOption => runs[1].attr = analysis_option
        /\ preco_max # Unset =>
              \A j \in 1..Len(runs[1].view) : runs[1].view[j].SalePrice_log <= preco_max

(* C6 as amended.  In Ready, app.py calls exactly the routine of the       *)
(* selected attribute, on the whole dataset (it has no slider);            *)
(* streamlit_app.py has no selection and calls the routines in the order   *)
(* Overall Qual, Neighborhood, Garage Type, stopping after the first that  *)
(* raises, each on the rows at or below the slider's threshold.            *)
C6_Dispatch ==
    ShellState = "Ready" =>
        IF app = "app"
        THEN /\ Len(runs) = 1
             /\ analysis_option \in AttributeSet
             /\ runs[1].attr = analysis_option
             /\ runs[1].view = df.rows
             /\ preco_max = Unset
        ELSE /\ Len(runs) \in 1..3
             /\ analysis_option = NoOption
             /\ \A k \in RunIdx :
                   /\ runs[k].attr = Attributes[k]
                   /\ k < Len(runs) => ~runs[k].raised
                   /\ \A j \in 1..Len(runs[k].view) :
                         /\ runs[k].view[j].SalePrice_log <= preco_max
                         /\ runs[k].view[j] \in Range(df.rows)
             /\ Len(runs) < 3 => runs[Len(runs)].raised

(* streamlit_app.py: all three routines ran in one pass, on the same view  *)
C6_Witness ==
    /\ app = "streamlit_app" /\ ShellState = "Ready"
    /\ Len(runs) = 3 /\ ~runs[3].raised
    /\ runs[1].view = runs[2].view /\ runs[2].view = runs[3].view

(* C7.  The omnibus test of an attribute is fixed (Overall Qual: ANOVA,    *)
(* Neighborhood: Kruskal-Wallis, Garage Type: ANOVA): whatever p-values    *)
(* the assumption tests returned, that test is the one called, and once    *)
(* the assumption tests have returned the test is called.                  *)
C7_FixedOmnibus ==
    \A k \in RunIdx :
        (runs[k].checked \/ runs[k].test # "none") =>
            runs[k].test = CASE runs[k].attr = "OverallQual" -> "ANOVA"
                             [] runs[k].attr = "Neighborhood" -> "Kruskal-Wallis"
                             [] runs[k].attr = "GarageType" -> "ANOVA"

(* Both assumptions of ANOVA met on the neighbourhoods, and Kruskal-Wallis *)
(* is run all the same                                                     *)
C7_Witness ==
    \E k \in RunIdx :
        /\ runs[k].attr = "Neighborhood" /\ runs[k].checked
        /\ runs[k].shapiro_p > Alpha /\ runs[k].levene_p > Alpha
        /\ runs[k].test = "Kruskal-Wallis" /\ ~runs[k].raised

(* C8.  For every attribute and both assumption tests, the routine shows   *)
(* "met" exactly when the test's p-value is > 0.05 and "violated" exactly  *)
(* when it is <= 0.05.                                                     *)
C8_FlagFollowsP ==
    \A k \in RunIdx :
        (runs[k].checked /\ runs[k].shapiro_p # NoP /\ runs[k].levene_p # NoP) =>
            /\ runs[k].normFlag = "met" <=> runs[k].shapiro_p > Alpha
            /\ runs[k].normFlag = "violated" <=> runs[k].shapiro_p <= Alpha
            /\ runs[k].homFlag = "met" <=> runs[k].levene_p > Alpha
            /\ runs[k].homFlag = "violated" <=> runs[k].levene_p <= Alpha

(* C9 as stated.  Every box-plot draws its groups by ascending median of   *)
(* the log-price on the view the routine was given.                        *)
C9_MedianOrderAll ==
    \A k \in RunIdx : \A i, j \in 1..Len(runs[k].order) :
        i < j => Median2(GroupOf(runs[k], runs[k].order[i]))
                     <= Median2(GroupOf(runs[k], runs[k].order[j]))

(* C9 as amended.  The Neighborhood and Garage Type box-plots draw their   *)
(* groups by ascending median of the log-price on the view given; the      *)
(* Overall Qual box-plot draws its groups by ascending grade.  A plot that *)
(* is drawn draws every group of the view once.                            *)
C9_PlotOrder ==
    \A k \in RunIdx :
        LET r == runs[k]
        IN /\ r.order # <<>> =>
                /\ Range(r.order) = Groups(r.view, r.attr)
                /\ Len(r.order) = Cardinality(Groups(r.view, r.attr))
           /\ \A i, j \in 1..Len(r.order) :
                i < j => IF r.attr = "OverallQual"
                         THEN r.order[i] < r.order[j]
                         ELSE Median2(GroupOf(r, r.order[i])) <= Median2(GroupOf(r, r.order[j]))

(* Two neighbourhoods of different median, drawn lower median first *)
C9_Witness ==
    \E k \in RunIdx :
        /\ runs[k].attr = "Neighborhood" /\ Len(runs[k].order) = 2
        /\ Median2(GroupOf(runs[k], runs[k].order[1]))
              < Median2(GroupOf(runs[k], runs[k].order[2]))

(* C10.  A routine given a view that the slider has cut down to a group of *)
(* fewer than 2 observations shows a warning, and the pass completes       *)
(* without an uncaught exception.                                          *)
C10_SmallGroupWarned ==
    \A k \in RunIdx :
        (HasSmallGroup(runs[k]) /\ Len(runs[k].view) < Len(df.rows)) =>
            /\ ~runs[k].raised
            /\ ElemsOfKind("exception") = {}
            /\ \E i \in ElemsOfKind("warning") : display[i].by = runs[k].attr

====
